---- MODULE Spec2Model ----
(***************************************************************************)
(* Fixed-point SVM inference simulators of simulation/fixed_point_sim.py:  *)
(* the saturating Q8.8 arithmetic of FixedPointSVM, the exp() lookup table *)
(* of KernelSVMSimulator, and the predict_sample loops of                  *)
(* LinearSVMSimulator and KernelSVMSimulator.                              *)
(*                                                                         *)
(* Arrays are functions over 0..n-1, indexed as in the Python source.      *)
(* All values of the data path are numpy integers of at least 32 bits      *)
(* (np.int32 products, np.int32 accumulators) except where a definition    *)
(* says otherwise; with 16-bit operands none of the 32-bit operations can  *)
(* overflow, and TLC itself stops with an overflow error if one did.       *)
(***************************************************************************)
EXTENDS Integers, Sequences, FiniteSets, TLC

VARIABLES
    engine,           \* which class the instance is: "linear", "kernel", "none", ...
    fmt,              \* FixedPointSVM: int_bits, frac_bits, scale, total_bits
    weights,          \* LinearSVMSimulator.weights       (int16 array)
    support_vectors,  \* KernelSVMSimulator.support_vectors (int16 matrix)
    dual_coef,        \* KernelSVMSimulator.dual_coef     (int16 array)
    bias,             \* self.bias                        (int16)
    gamma,            \* KernelSVMSimulator.gamma         (int16)
    n_features,       \* self.n_features
    n_support,        \* KernelSVMSimulator.n_support
    lut,              \* KernelSVMSimulator.lut           (int16 array of lut_size entries)
    operation_count,  \* self.operation_count
    counter,          \* HardwareLinearSVM / HardwareKernelSVM: self.counter
    calls,            \* HardwareLinearSVM / HardwareKernelSVM: predict calls made
                      \* on the instance, "none", "first" or "repeated"
    batch,            \* the running batch predict(X_fp): its locals
    workers,          \* concurrent workers on one instance: the locals of each
    driver,           \* SVMAccelerator: the registers behind self.mmio and the
                      \* position and locals of load_parameters / predict
    pc,               \* position of the running predict_sample call
    x,                \* local x of predict_sample (int16 array)
    i,                \* feature loop index
    j,                \* support-vector loop index
    acc,              \* local acc of predict_sample
    dist_sq,          \* local dist_sq of compute_distance_sq
    diff,             \* local diff of compute_distance_sq (last computed)
    kernel_val,       \* local kernel_val of predict_sample (last looked up)
    result,           \* returned decision value
    prediction,       \* returned class
    fn,               \* pure-function harness: the function last applied
    fa,               \* its first argument
    fb,               \* its second argument
    fr,               \* its returned value
    findex,           \* exp_approximation: the index it computed
    pd,               \* exp_approximation: the argument of the call before
    pr                \* exp_approximation: the value returned by the call before

engine_vars == <<engine, fmt, weights, support_vectors, dual_coef, bias, gamma,
                 n_features, n_support, lut>>
call_vars == <<pc, x, i, j, acc, dist_sq, diff, kernel_val, result, prediction>>
fn_vars == <<fn, fa, fb, fr, findex, pd, pr>>
vars == <<engine, fmt, weights, support_vectors, dual_coef, bias, gamma,
          n_features, n_support, lut, operation_count, counter, calls, batch,
          workers, driver,
          pc, x, i, j, acc, dist_sq, diff, kernel_val, result, prediction,
          fn, fa, fb, fr, findex, pd, pr>>

-----------------------------------------------------------------------------
(* Bounds of the model *)

MaxFeatures == 3

MaxSupport == 2

-----------------------------------------------------------------------------
(* FixedPointSVM *)

frac_bits == 8

scale == 2 ^ frac_bits

max_val == 2 ^ 15 - 1

min_val == -(2 ^ 15)

\* FixedPointSVM.__init__(int_bits, frac_bits)
FixedPointFormat(ibits, fbits) ==
    [int_bits |-> ibits, frac_bits |-> fbits, scale |-> 2 ^ fbits,
     total_bits |-> ibits + fbits]

\* the format of super().__init__(): int_bits=8, frac_bits=8
DefaultFormat == FixedPointFormat(8, frac_bits)

\* np.clip(value, min_val, max_val): max_val and min_val are the local
\* constants of saturate, whatever the format of the instance
saturate(value) ==
    IF value < min_val THEN min_val
    ELSE IF value > max_val THEN max_val
    ELSE value

\* division that truncates toward zero, as C integer division does
ShiftRight_TowardZero(product, bits) ==
    IF product >= 0 THEN product \div (2 ^ bits)
    ELSE -((-product) \div (2 ^ bits))

\* product >> frac_bits on a signed numpy integer: arithmetic shift, i.e.
\* floor division by 2^frac_bits (\div rounds toward minus infinity).
ShiftRight(product, bits) == product \div (2 ^ bits)

\* np.int32(a) * np.int32(b), >> frac_bits, saturate
fixed_mult(a, b) ==
    LET product == a * b
        shifted == ShiftRight(product, frac_bits)
    IN  saturate(shifted)

\* int16 + int16 stays int16 in numpy and wraps modulo 2^16
Wrap16(v) == ((v + 32768) % 65536) - 32768

\* the sum formed in 16 bits before it is clipped
fixed_add_Wrap(a, b) == saturate(Wrap16(a + b))

\* a + b, saturate.  Every call of fixed_add in the source has an operand of
\* at least 32 bits (acc is np.int32, sq and weighted come out of fixed_mult),
\* so the sum of two 16-bit values is exact.
fixed_add(a, b) ==
    LET sum == a + b
    IN  saturate(sum)

-----------------------------------------------------------------------------
(* np.exp, in fixed point with 30 fractional bits.  ExpNeg(n) is           *)
(* exp(-n/4096) * 2^30 to within 2^-21; products go through 15-bit limbs   *)
(* so that every intermediate value fits in 32 bits.                       *)

ONE == 2 ^ 30

LIMB == 2 ^ 15

MulFix(a, b) ==
    LET a1 == a \div LIMB
        a0 == a % LIMB
        b1 == b \div LIMB
        b0 == b % LIMB
        mid == a1 * b0 + a0 * b1
        low == (a0 * b0) \div LIMB
    IN  a1 * b1 + ((mid + low) \div LIMB)

RECURSIVE TaylorTerm(_, _)
\* xf^k / k!
TaylorTerm(xf, k) ==
    IF k = 0 THEN ONE ELSE MulFix(TaylorTerm(xf, k - 1), xf) \div k

RECURSIVE SumTerms(_, _, _)
SumTerms(xf, k, last) ==
    IF k > last THEN 0 ELSE TaylorTerm(xf, k) + SumTerms(xf, k + 2, last)

\* exp(-xf) for 0 <= xf <= 1: the alternating series up to the 14th power
ExpSeries(xf) == SumTerms(xf, 0, 14) - SumTerms(xf, 1, 14)

RECURSIVE ExpNeg(_)
ExpNeg(n) ==
    IF n <= 4096 THEN ExpSeries(n * (2 ^ 18))
    ELSE LET h == ExpNeg(n \div 2)
         IN  MulFix(MulFix(h, h), IF n % 2 = 1 THEN ExpSeries(2 ^ 18) ELSE ONE)

-----------------------------------------------------------------------------
(* KernelSVMSimulator.build_exp_lut / exp_approximation *)

lut_size == 256

\* max_dist = 16.0 of build_exp_lut and of exp_approximation
max_dist == 16

\* exp_val * self.scale for table index idx, as the pair <<integer part,
\* fractional part in units of 2^-22>>.  dist_sq = (idx/lut_size)*max_dist and
\* gamma_float = gamma/scale, so gamma_float*dist_sq = gamma*idx/4096 for the
\* default lut_size, max_dist and scale; exp_val*256 = ExpNeg(gamma*idx) / 2^22.
LutReference(g, idx) ==
    LET e == ExpNeg(g * idx)
    IN  <<e \div (2 ^ 22), e % (2 ^ 22)>>

\* np.int16(float): conversion truncates toward zero; the clipped value is
\* within int16, and exp_val * scale is never negative.
QuantizeLut(ref) == saturate(ref[1])

\* the table filled from the far end: entry idx holds the value of 255 - idx
build_exp_lut_Increasing(g) ==
    [idx \in 0..(lut_size - 1) |->
        QuantizeLut(LutReference(g, (lut_size - 1) - idx))]

\* the table sampled at the far end of each bucket
build_exp_lut_BucketEnd(g) ==
    [idx \in 0..(lut_size - 1) |-> QuantizeLut(LutReference(g, idx + 1))]

build_exp_lut(g) ==
    [idx \in 0..(lut_size - 1) |-> QuantizeLut(LutReference(g, idx))]

\* (dist_float / max_dist) * 255 before clipping: the exact rational
\* d * 255 / (scale * max_dist), returned as its floor (all factors are exact
\* in double precision: divisions by powers of two and a product below 2^53)
LutPosition(d) == (d * (lut_size - 1)) \div (scale * max_dist)

\* the index taken modulo the table size (a bit mask) instead of clipped
LutIndex_Mask(d) == LutPosition(d) % lut_size

\* int(np.clip((dist_float / max_dist) * 255, 0, 255))
LutIndex(d) ==
    LET p == LutPosition(d)
    IN  IF p < 0 THEN 0
        ELSE IF p > lut_size - 1 THEN lut_size - 1
        ELSE p

\* self.lut[index]
exp_approximation(table, d) == table[LutIndex(d)]

-----------------------------------------------------------------------------
(* Inputs *)

\* 16-bit operands of the arithmetic: the range ends, the values around
\* zero and around one (256), and values whose products need rounding
ArithVals == {-32768, -32767, -257, -256, -255, -1, 0, 1, 3, 255, 256, 257,
              32766, 32767}

\* gamma_fp values (Q8.8): 0, 1/16, 1/4, 1 and the largest int16
Gammas == {0, 16, 64, 256, 32767}

\* dist_sq arguments of exp_approximation: the 16-bit range ends, zero, the
\* bucket borders and the domain bound 16.0 (4096)
DistVals == {-32768, -17, -1, 0, 1, 16, 17, 32, 256, 2048, 4079, 4080, 4095,
             4096, 4097, 4112, 8192, 32767}

\* the fields of an instance that is not a simulator of the given kind
NoArray == [k \in {} |-> 0]

\* HardwareCounter.reset()
ZeroCounter ==
    [macs |-> 0, adds |-> 0, mults |-> 0, comps |-> 0, luts |-> 0, total_ops |-> 0]

\* no batch predict is running
NoBatch == [st |-> "none"]

\* no worker shares the instance
NoWorkers == << >>

\* no SVMAccelerator
NoDriver == [pc |-> "none"]

\* the history of predict calls after one more call
NextCall == IF calls = "none" THEN "first" ELSE "repeated"

IdleCall ==
    /\ pc = "idle"
    /\ counter = ZeroCounter
    /\ calls = "none"
    /\ batch = NoBatch
    /\ x = NoArray
    /\ i = 0
    /\ j = 0
    /\ acc = 0
    /\ dist_sq = 0
    /\ diff = 0
    /\ kernel_val = 0
    /\ result = 0
    /\ prediction = 0

IdleFn ==
    /\ fn = "none"
    /\ fa = 0
    /\ fb = 0
    /\ fr = 0
    /\ findex = 0
    /\ pd = 0
    /\ pr = 0

-----------------------------------------------------------------------------
(* The arithmetic and the lookup as pure functions: a KernelSVMSimulator   *)
(* with one support vector is constructed (its table built for gamma), and *)
(* fixed_mult, fixed_add and exp_approximation are applied to arguments.   *)

LutTables == [g \in Gammas |-> build_exp_lut(g)]

InitFn ==
    /\ engine = "kernel"
    /\ fmt = DefaultFormat
    /\ weights = NoArray
    /\ support_vectors = [r \in {0} |-> [c \in {0} |-> 0]]
    /\ dual_coef = [r \in {0} |-> 256]
    /\ bias = 0
    /\ gamma \in Gammas
    /\ n_features = 1
    /\ n_support = 1
    /\ lut = LutTables[gamma]
    /\ operation_count = 0
    /\ IdleCall
    /\ IdleFn
    /\ workers = NoWorkers
    /\ driver = NoDriver

ApplyFixedMult(a, b) ==
    /\ fn' = "fixed_mult"
    /\ fa' = a
    /\ fb' = b
    /\ fr' = fixed_mult(a, b)
    /\ findex' = 0
    /\ pd' = 0
    /\ pr' = 0
    /\ UNCHANGED <<engine_vars, operation_count, call_vars, counter, calls, batch>>
    /\ UNCHANGED <<workers, driver>>

ApplyFixedAdd(a, b) ==
    /\ fn' = "fixed_add"
    /\ fa' = a
    /\ fb' = b
    /\ fr' = fixed_add(a, b)
    /\ findex' = 0
    /\ pd' = 0
    /\ pr' = 0
    /\ UNCHANGED <<engine_vars, operation_count, call_vars, counter, calls, batch>>
    /\ UNCHANGED <<workers, driver>>

\* exp_approximation(d): the argument and value of the lookup before it
\* are kept in pd, pr
ApplyExpApproximation(d) ==
    /\ fn' = "exp_approximation"
    /\ fa' = d
    /\ fb' = 0
    /\ findex' = LutIndex(d)
    /\ fr' = exp_approximation(lut, d)
    /\ pd' = IF fn = "exp_approximation" THEN fa ELSE d
    /\ pr' = IF fn = "exp_approximation" THEN fr ELSE exp_approximation(lut, d)
    /\ UNCHANGED <<engine_vars, operation_count, call_vars, counter, calls, batch>>
    /\ UNCHANGED <<workers, driver>>

NextFn ==
    \/ \E a \in ArithVals, b \in ArithVals : ApplyFixedMult(a, b)
    \/ \E a \in ArithVals, b \in ArithVals : ApplyFixedAdd(a, b)
    \/ \E d \in DistVals : ApplyExpApproximation(d)

SpecFn == InitFn /\ [][NextFn]_vars

-----------------------------------------------------------------------------
(* FixedPointSVM constructed with a format of its own: saturate applied to *)
(* raw values.                                                             *)

\* <<int_bits, frac_bits>>
Formats == {<<8, 8>>, <<4, 4>>, <<4, 12>>, <<12, 4>>, <<2, 6>>, <<8, 16>>}

\* raw values around the ends of the 8-, 16- and 24-bit ranges
RawVals == {-9000000, -8388609, -8388608, -70000, -32769, -32768, -32767,
            -200, -129, -128, -127, -1, 0, 1, 127, 128, 129, 200, 32766,
            32767, 32768, 70000, 8388607, 8388608, 9000000}

InitFormat ==
    /\ engine = "none"
    /\ fmt \in {FixedPointFormat(f[1], f[2]) : f \in Formats}
    /\ weights = NoArray
    /\ support_vectors = NoArray
    /\ dual_coef = NoArray
    /\ bias = 0
    /\ gamma = 0
    /\ n_features = 0
    /\ n_support = 0
    /\ lut = NoArray
    /\ operation_count = 0
    /\ IdleCall
    /\ IdleFn
    /\ workers = NoWorkers
    /\ driver = NoDriver

ApplySaturate(value) ==
    /\ fn' = "saturate"
    /\ fa' = value
    /\ fb' = 0
    /\ fr' = saturate(value)
    /\ findex' = 0
    /\ pd' = 0
    /\ pr' = 0
    /\ UNCHANGED <<engine_vars, operation_count, call_vars, counter, calls, batch>>
    /\ UNCHANGED <<workers, driver>>

NextFormat == \E value \in RawVals : ApplySaturate(value)

SpecFormat == InitFormat /\ [][NextFormat]_vars

-----------------------------------------------------------------------------
(* The simulators.  An instance is a LinearSVMSimulator or a               *)
(* KernelSVMSimulator, constructed from an already quantized parameter     *)
(* record; predict_sample runs one loop iteration per step.                *)

\* quantized weights, features and bias (Q8.8): 1.0, -1.0 and the range ends
WeightVals == {256, -256, 32767}

FeatureVals == {256, 32767, -32768}

BiasVals == {0, -32768}

\* support vector components, kernel inputs and dual coefficients
SvVals == {256, -256}

KernelFeatureVals == {256, 32767}

CoefVals == {32767, -32768}

KernelGammas == {0, 16}

\* a row of n values: a first, b in every other column
Row(n, a, b) == [c \in 0..(n - 1) |-> IF c = 0 THEN a ELSE b]

SvRows(n) == {Row(n, a, b) : a \in SvVals, b \in SvVals}

KernelInputs(n) == {Row(n, a, b) : a \in KernelFeatureVals, b \in KernelFeatureVals}

\* matrices of ns rows: one row first, another in every other place
SvMatrices(ns, nf) == {Row(ns, r, q) : r \in SvRows(nf), q \in SvRows(nf)}

CoefArrays(ns) == {Row(ns, a, b) : a \in CoefVals, b \in CoefVals}

\* LinearSVMSimulator.__init__
InitLinear ==
    /\ engine = "linear"
    /\ fmt = DefaultFormat
    /\ n_features \in 1..MaxFeatures
    /\ weights \in [0..(n_features - 1) -> WeightVals]
    /\ bias \in BiasVals
    /\ support_vectors = NoArray
    /\ dual_coef = NoArray
    /\ gamma = 0
    /\ n_support = 0
    /\ lut = NoArray
    /\ operation_count = 0

\* KernelSVMSimulator.__init__, build_exp_lut included
InitKernel ==
    /\ engine = "kernel"
    /\ fmt = DefaultFormat
    /\ n_features \in 1..MaxFeatures
    /\ n_support \in 1..MaxSupport
    /\ support_vectors \in SvMatrices(n_support, n_features)
    /\ dual_coef \in CoefArrays(n_support)
    /\ bias \in BiasVals
    /\ gamma \in KernelGammas
    /\ weights = NoArray
    /\ lut = LutTables[gamma]
    /\ operation_count = 0

Init ==
    /\ InitLinear \/ InitKernel
    /\ IdleCall
    /\ IdleFn
    /\ workers = NoWorkers
    /\ driver = NoDriver

\* entry of predict_sample with the accumulator of the call before kept
LinStart_KeepAcc(x_fp) ==
    /\ engine = "linear"
    /\ pc \in {"idle", "done"}
    /\ operation_count' = 0
    /\ x' = x_fp
    /\ acc' = acc
    /\ i' = 0
    /\ result' = 0
    /\ prediction' = 0
    /\ pc' = "loop"
    /\ UNCHANGED <<j, dist_sq, diff, kernel_val>>
    /\ UNCHANGED <<engine_vars, fn_vars, counter, calls>>
    /\ UNCHANGED <<workers, driver>>

\* LinearSVMSimulator.predict_sample: entry, up to the loop (the values
\* returned by the call before are gone)
LinStart(x_fp) ==
    /\ engine = "linear"
    /\ pc \in {"idle", "done"}
    /\ operation_count' = 0
    /\ x' = x_fp
    /\ acc' = 0
    /\ i' = 0
    /\ result' = 0
    /\ prediction' = 0
    /\ pc' = "loop"
    /\ UNCHANGED <<j, dist_sq, diff, kernel_val>>
    /\ UNCHANGED <<engine_vars, fn_vars, counter, calls>>
    /\ UNCHANGED <<workers, driver>>

\* the products accumulated at full width, without the clip of fixed_add
LinLoop_NoSaturate ==
    /\ engine = "linear"
    /\ pc = "loop"
    /\ i < n_features
    /\ acc' = acc + fixed_mult(weights[i], x[i])
    /\ operation_count' = operation_count + 2
    /\ i' = i + 1
    /\ UNCHANGED <<pc, x, j, dist_sq, diff, kernel_val, result, prediction>>
    /\ UNCHANGED <<engine_vars, fn_vars, counter, calls, batch>>
    /\ UNCHANGED <<workers, driver>>

\* one iteration of "for i in range(self.n_features)"
LinLoop ==
    /\ engine = "linear"
    /\ pc = "loop"
    /\ i < n_features
    /\ LET prod == fixed_mult(weights[i], x[i])
       IN  acc' = fixed_add(acc, prod)
    /\ operation_count' = operation_count + 2
    /\ i' = i + 1
    /\ UNCHANGED <<pc, x, j, dist_sq, diff, kernel_val, result, prediction>>
    /\ UNCHANGED <<engine_vars, fn_vars, counter, calls, batch>>
    /\ UNCHANGED <<workers, driver>>

\* the sign test with > in place of >=
Classify_Strict(value) == IF value > 0 THEN 1 ELSE 0

\* prediction = 1 if result >= 0 else 0
Classify(value) == IF value >= 0 THEN 1 ELSE 0

\* the bias added in place: self.bias holds the sum afterwards
LinFinish_BiasInPlace ==
    /\ engine = "linear"
    /\ pc = "loop"
    /\ i = n_features
    /\ result' = fixed_add(acc, bias)
    /\ bias' = result'
    /\ operation_count' = operation_count + 1
    /\ prediction' = Classify(result')
    /\ pc' = "done"
    /\ UNCHANGED <<x, i, j, acc, dist_sq, diff, kernel_val>>
    /\ UNCHANGED <<engine, fmt, weights, support_vectors, dual_coef, gamma,
                   n_features, n_support, lut, fn_vars, counter, calls, batch>>
    /\ UNCHANGED <<workers, driver>>

\* after the loop: add the bias, take the sign, return
LinFinish ==
    /\ engine = "linear"
    /\ pc = "loop"
    /\ i = n_features
    /\ result' = fixed_add(acc, bias)
    /\ operation_count' = operation_count + 1
    /\ prediction' = Classify(result')
    /\ pc' = "done"
    /\ UNCHANGED <<x, i, j, acc, dist_sq, diff, kernel_val>>
    /\ UNCHANGED <<engine_vars, fn_vars, counter, calls, batch>>
    /\ UNCHANGED <<workers, driver>>

\* KernelSVMSimulator.predict_sample: entry, up to the loop
KerStart(x_fp) ==
    /\ engine = "kernel"
    /\ pc \in {"idle", "done"}
    /\ operation_count' = 0
    /\ x' = x_fp
    /\ acc' = 0
    /\ j' = 0
    /\ i' = 0
    /\ dist_sq' = 0
    /\ diff' = 0
    /\ kernel_val' = 0
    /\ result' = 0
    /\ prediction' = 0
    /\ pc' = "sv"
    /\ UNCHANGED <<engine_vars, fn_vars, counter, calls>>
    /\ UNCHANGED <<workers, driver>>

\* "for j in range(self.n_support)": the call of compute_distance_sq
KerEnterDistance ==
    /\ engine = "kernel"
    /\ pc = "sv"
    /\ j < n_support
    /\ dist_sq' = 0
    /\ i' = 0
    /\ pc' = "dist"
    /\ UNCHANGED <<x, j, acc, diff, kernel_val, result, prediction, operation_count>>
    /\ UNCHANGED <<engine_vars, fn_vars, counter, calls, batch>>
    /\ UNCHANGED <<workers, driver>>

\* x[i] - sv[i]: both are np.int16 scalars, the difference is an np.int16
\* and wraps modulo 2^16
SubInt16(a, b) == Wrap16(a - b)

\* one iteration of the loop of compute_distance_sq
KerFeature ==
    /\ engine = "kernel"
    /\ pc = "dist"
    /\ i < n_features
    /\ diff' = saturate(SubInt16(x[i], support_vectors[j][i]))
    /\ LET sq == fixed_mult(diff', diff')
       IN  dist_sq' = fixed_add(dist_sq, sq)
    /\ i' = i + 1
    /\ UNCHANGED <<pc, x, j, acc, kernel_val, result, prediction, operation_count>>
    /\ UNCHANGED <<engine_vars, fn_vars, counter, calls, batch>>
    /\ UNCHANGED <<workers, driver>>

\* the dual coefficients taken from the far end of the array
KerKernel_ReversedCoef ==
    /\ engine = "kernel"
    /\ pc = "dist"
    /\ i = n_features
    /\ kernel_val' = exp_approximation(lut, dist_sq)
    /\ acc' = fixed_add(acc, fixed_mult(dual_coef[(n_support - 1) - j], kernel_val'))
    /\ operation_count' = operation_count + 3 * i + 3
    /\ j' = j + 1
    /\ pc' = "sv"
    /\ UNCHANGED <<x, i, dist_sq, diff, result, prediction>>
    /\ UNCHANGED <<engine_vars, fn_vars, counter, calls, batch>>
    /\ UNCHANGED <<workers, driver>>

\* compute_distance_sq returns (dist_sq, ops = 3 per feature); the rest of
\* the body of the support-vector loop: lookup, weigh, accumulate
KerKernel ==
    /\ engine = "kernel"
    /\ pc = "dist"
    /\ i = n_features
    /\ kernel_val' = exp_approximation(lut, dist_sq)
    /\ LET weighted == fixed_mult(dual_coef[j], kernel_val')
       IN  acc' = fixed_add(acc, weighted)
    /\ operation_count' = operation_count + 3 * i + 1 + 1 + 1
    /\ j' = j + 1
    /\ pc' = "sv"
    /\ UNCHANGED <<x, i, dist_sq, diff, result, prediction>>
    /\ UNCHANGED <<engine_vars, fn_vars, counter, calls, batch>>
    /\ UNCHANGED <<workers, driver>>

\* after the loop: add the bias, take the sign, return
KerFinish ==
    /\ engine = "kernel"
    /\ pc = "sv"
    /\ j = n_support
    /\ result' = fixed_add(acc, bias)
    /\ operation_count' = operation_count + 1
    /\ prediction' = Classify(result')
    /\ pc' = "done"
    /\ UNCHANGED <<x, i, j, acc, dist_sq, diff, kernel_val>>
    /\ UNCHANGED <<engine_vars, fn_vars, counter, calls, batch>>
    /\ UNCHANGED <<workers, driver>>

Next ==
    \/ \E x_fp \in [0..(n_features - 1) -> FeatureVals] :
           LinStart(x_fp) /\ UNCHANGED batch
    \/ LinLoop
    \/ LinFinish
    \/ \E x_fp \in KernelInputs(n_features) : KerStart(x_fp) /\ UNCHANGED batch
    \/ KerEnterDistance
    \/ KerFeature
    \/ KerKernel
    \/ KerFinish

Spec == Init /\ [][Next]_vars

-----------------------------------------------------------------------------
(* hardware_eval.py: HardwareCounter, HardwareLinearSVM, HardwareKernelSVM *)

\* a multiply-accumulate counted as one operation in total_ops
CounterMac_SingleOp(c, n) ==
    [c EXCEPT !.macs = @ + n, !.mults = @ + n, !.adds = @ + n,
              !.total_ops = @ + n]

\* HardwareCounter.mac(n)
CounterMac(c, n) ==
    [c EXCEPT !.macs = @ + n, !.mults = @ + n, !.adds = @ + n,
              !.total_ops = @ + 2 * n]

\* HardwareCounter.add(n)
CounterAdd(c, n) == [c EXCEPT !.adds = @ + n, !.total_ops = @ + n]

\* HardwareCounter.mult(n)
CounterMult(c, n) == [c EXCEPT !.mults = @ + n, !.total_ops = @ + n]

\* HardwareCounter.comp(n)
CounterComp(c, n) == [c EXCEPT !.comps = @ + n, !.total_ops = @ + n]

\* HardwareCounter.lut(n)
CounterLut(c, n) == [c EXCEPT !.luts = @ + n, !.total_ops = @ + n]

\* largest np.int32
MaxInt32 == 2147483647

MinInt32 == -MaxInt32 - 1

\* np.int32 + np.int32: the sum modulo 2^32, computed without leaving 32 bits
Add32(a, b) ==
    IF a > 0 /\ b > 0 /\ a > MaxInt32 - b
    THEN (a + MinInt32) + (b + MinInt32)
    ELSE IF a < 0 /\ b < 0 /\ a < MinInt32 - b
         THEN (a - MinInt32) + (b - MinInt32)
         ELSE a + b

HALF == 2 ^ 16

\* an integer wider than 32 bits is kept as <<v div 2^16, v mod 2^16>>
Split(v) == <<v \div HALF, v % HALF>>

\* np.int64 + np.int64 of two split integers
AddSplit(a, b) == <<a[1] + b[1] + ((a[2] + b[2]) \div HALF), (a[2] + b[2]) % HALF>>

\* HardwareLinearSVM.__init__
InitHwLinear ==
    /\ engine = "hw_linear"
    /\ fmt = DefaultFormat
    /\ n_features \in 1..MaxFeatures
    /\ weights \in [0..(n_features - 1) -> WeightVals]
    /\ bias \in BiasVals
    /\ support_vectors = NoArray
    /\ dual_coef = NoArray
    /\ gamma = 0
    /\ n_support = 0
    /\ lut = NoArray
    /\ operation_count = 0

\* HardwareKernelSVM.__init__
InitHwKernel ==
    /\ engine = "hw_kernel"
    /\ fmt = DefaultFormat
    /\ n_features \in 1..MaxFeatures
    /\ n_support \in 1..MaxSupport
    /\ support_vectors \in SvMatrices(n_support, n_features)
    /\ dual_coef \in CoefArrays(n_support)
    /\ bias \in BiasVals
    /\ gamma \in KernelGammas
    /\ weights = NoArray
    /\ lut = NoArray
    /\ operation_count = 0

InitHw ==
    /\ InitHwLinear \/ InitHwKernel
    /\ IdleCall
    /\ IdleFn
    /\ workers = NoWorkers
    /\ driver = NoDriver

\* a call on the instance may begin: no other call is running
HwReady == pc \in {"idle", "done", "estimated"}

\* HardwareLinearSVM.predict: entry, a call that forgets counter.reset()
HwLinStart_NoReset(x_in) ==
    /\ engine = "hw_linear"
    /\ HwReady
    /\ counter' = counter
    /\ x' = x_in
    /\ acc' = 0
    /\ i' = 0
    /\ result' = 0
    /\ prediction' = 0
    /\ pc' = "loop"
    /\ calls' = NextCall
    /\ UNCHANGED <<engine_vars, fn_vars, operation_count, batch, j, dist_sq, diff, kernel_val>>
    /\ UNCHANGED <<workers, driver>>

\* HardwareLinearSVM.predict: entry, counter.reset() and acc = 0
HwLinStart(x_in) ==
    /\ engine = "hw_linear"
    /\ HwReady
    /\ counter' = ZeroCounter
    /\ x' = x_in
    /\ acc' = 0
    /\ i' = 0
    /\ result' = 0
    /\ prediction' = 0
    /\ pc' = "loop"
    /\ calls' = NextCall
    /\ UNCHANGED <<engine_vars, fn_vars, operation_count, batch, j, dist_sq, diff, kernel_val>>
    /\ UNCHANGED <<workers, driver>>

\* HardwareLinearSVM.predict: one pass of the loop, mac() counting no addition
HwLinLoop_MacOnly ==
    /\ engine = "hw_linear"
    /\ pc = "loop"
    /\ i < n_features
    /\ acc' = Add32(acc, weights[i] * x[i])
    /\ counter' = [counter EXCEPT !.macs = @ + 1, !.mults = @ + 1, !.total_ops = @ + 1]
    /\ i' = i + 1
    /\ UNCHANGED <<engine_vars, fn_vars, operation_count, calls, batch,
                   pc, x, j, dist_sq, diff, kernel_val, result, prediction>>
    /\ UNCHANGED <<workers, driver>>

\* HardwareLinearSVM.predict: one pass of the loop over zip(weights, x)
HwLinLoop ==
    /\ engine = "hw_linear"
    /\ pc = "loop"
    /\ i < n_features
    /\ acc' = Add32(acc, weights[i] * x[i])
    /\ counter' = CounterMac(counter, 1)
    /\ i' = i + 1
    /\ UNCHANGED <<engine_vars, fn_vars, operation_count, calls, batch,
                   pc, x, j, dist_sq, diff, kernel_val, result, prediction>>
    /\ UNCHANGED <<workers, driver>>

\* HardwareLinearSVM.predict: bias addition, comparison and return.
\* "acc + (np.int32(self.bias) << 8)" is an np.int32 sum that wraps under
\* NumPy 2 and an np.int64 sum under NumPy 1 (the shift by a Python int
\* promotes to the default integer): val is either, kept split.
HwLinFinish ==
    /\ engine = "hw_linear"
    /\ pc = "loop"
    /\ i = n_features
    /\ \E val \in {Split(Add32(acc, bias * 256)),
                   AddSplit(Split(acc), Split(bias * 256))} :
           /\ result' = val
           /\ prediction' = IF val[1] >= 0 THEN 1 ELSE 0
    /\ counter' = CounterComp(CounterAdd(counter, 1), 1)
    /\ pc' = "done"
    /\ UNCHANGED <<engine_vars, fn_vars, operation_count, calls, batch,
                   x, i, j, acc, dist_sq, diff, kernel_val>>
    /\ UNCHANGED <<workers, driver>>

\* HardwareLinearSVM.estimate_cycles
HwLinEstimateCycles ==
    /\ engine = "hw_linear"
    /\ HwReady
    /\ result' = 6
    /\ pc' = "estimated"
    /\ UNCHANGED <<engine_vars, fn_vars, operation_count, counter, calls, batch,
                   x, i, j, acc, dist_sq, diff, kernel_val, prediction>>
    /\ UNCHANGED <<workers, driver>>

\* HardwareKernelSVM.predict: entry, counter.reset() and final_sum = 0
HwKerStart(x_in) ==
    /\ engine = "hw_kernel"
    /\ HwReady
    /\ counter' = ZeroCounter
    /\ x' = x_in
    /\ acc' = 0
    /\ j' = 0
    /\ i' = 0
    /\ dist_sq' = 0
    /\ diff' = 0
    /\ result' = 0
    /\ prediction' = 0
    /\ pc' = "sv"
    /\ calls' = NextCall
    /\ UNCHANGED <<engine_vars, fn_vars, operation_count, batch, kernel_val>>
    /\ UNCHANGED <<workers, driver>>

\* HardwareKernelSVM.predict: a support vector is taken up, dist_sq = 0
HwKerEnterDistance ==
    /\ engine = "hw_kernel"
    /\ pc = "sv"
    /\ j < n_support
    /\ dist_sq' = 0
    /\ i' = 0
    /\ pc' = "dist"
    /\ UNCHANGED <<engine_vars, fn_vars, operation_count, counter, calls, batch,
                   x, j, acc, diff, kernel_val, result, prediction>>
    /\ UNCHANGED <<workers, driver>>

\* HardwareKernelSVM.predict: one feature of the distance,
\* diff in np.int16, sq and dist_sq in np.int32
HwKerFeature ==
    /\ engine = "hw_kernel"
    /\ pc = "dist"
    /\ i < n_features
    /\ diff' = SubInt16(x[i], support_vectors[j][i])
    /\ dist_sq' = Add32(dist_sq, diff' * diff')
    /\ counter' = CounterAdd(CounterMult(CounterAdd(counter, 1), 1), 1)
    /\ i' = i + 1
    /\ UNCHANGED <<engine_vars, fn_vars, operation_count, calls, batch,
                   pc, x, j, acc, kernel_val, result, prediction>>
    /\ UNCHANGED <<workers, driver>>

\* HardwareKernelSVM.predict: end of one support vector, the lookup not counted
HwKerKernel_NoLut ==
    /\ engine = "hw_kernel"
    /\ pc = "dist"
    /\ i = n_features
    /\ counter' = CounterMac(counter, 1)
    /\ j' = j + 1
    /\ pc' = "sv"
    /\ UNCHANGED <<engine_vars, fn_vars, operation_count, calls, batch,
                   x, i, acc, dist_sq, diff, kernel_val, result, prediction>>
    /\ UNCHANGED <<workers, driver>>

\* HardwareKernelSVM.predict: the lookup and the multiply-accumulate of one
\* support vector, counted only
HwKerKernel ==
    /\ engine = "hw_kernel"
    /\ pc = "dist"
    /\ i = n_features
    /\ counter' = CounterMac(CounterLut(counter, 1), 1)
    /\ j' = j + 1
    /\ pc' = "sv"
    /\ UNCHANGED <<engine_vars, fn_vars, operation_count, calls, batch,
                   x, i, acc, dist_sq, diff, kernel_val, result, prediction>>
    /\ UNCHANGED <<workers, driver>>

\* HardwareKernelSVM.predict: bias addition and comparison counted, return 0, 0
HwKerFinish ==
    /\ engine = "hw_kernel"
    /\ pc = "sv"
    /\ j = n_support
    /\ counter' = CounterComp(CounterAdd(counter, 1), 1)
    /\ prediction' = 0
    /\ result' = 0
    /\ pc' = "done"
    /\ UNCHANGED <<engine_vars, fn_vars, operation_count, calls, batch,
                   x, i, j, acc, dist_sq, diff, kernel_val>>
    /\ UNCHANGED <<workers, driver>>

\* HardwareKernelSVM.estimate_cycles
HwKerEstimateCycles ==
    /\ engine = "hw_kernel"
    /\ HwReady
    /\ result' = 23
    /\ pc' = "estimated"
    /\ UNCHANGED <<engine_vars, fn_vars, operation_count, counter, calls, batch,
                   x, i, j, acc, dist_sq, diff, kernel_val, prediction>>
    /\ UNCHANGED <<workers, driver>>

NextHw ==
    \/ \E x_in \in [0..(n_features - 1) -> FeatureVals] : HwLinStart(x_in)
    \/ HwLinLoop
    \/ HwLinFinish
    \/ HwLinEstimateCycles
    \/ \E x_in \in KernelInputs(n_features) : HwKerStart(x_in)
    \/ HwKerEnterDistance
    \/ HwKerFeature
    \/ HwKerKernel
    \/ HwKerFinish
    \/ HwKerEstimateCycles

SpecHw == InitHw /\ [][NextHw]_vars

-----------------------------------------------------------------------------
(* The simulators on arguments of unequal lengths: the constructors as a   *)
(* step, an input vector x_fp whose length is not n_features, a kernel     *)
(* record whose dual_coef_fp and sv_fp have different lengths.             *)

\* len(a) of an array
len(a) == Cardinality(DOMAIN a)

\* input vectors of length n
InputsOfLength(n) == {Row(n, a, b) : a \in FeatureVals, b \in FeatureVals}

\* before __init__: the arguments of the constructor are at hand
NewCall ==
    /\ pc = "new"
    /\ counter = ZeroCounter
    /\ calls = "none"
    /\ batch = NoBatch
    /\ x = NoArray
    /\ i = 0
    /\ j = 0
    /\ acc = 0
    /\ dist_sq = 0
    /\ diff = 0
    /\ kernel_val = 0
    /\ result = 0
    /\ prediction = 0

\* the arguments weights_fp, bias_fp of LinearSVMSimulator(...)
ArgsLinear ==
    /\ engine = "linear"
    /\ fmt = DefaultFormat
    /\ \E n \in 1..MaxFeatures : weights \in [0..(n - 1) -> WeightVals]
    /\ bias \in BiasVals
    /\ support_vectors = NoArray
    /\ dual_coef = NoArray
    /\ gamma = 0
    /\ n_features = 0
    /\ n_support = 0
    /\ lut = NoArray
    /\ operation_count = 0

\* the arguments sv_fp, dual_coef_fp, bias_fp, gamma_fp of
\* KernelSVMSimulator(...), with len(dual_coef_fp) /= len(sv_fp)
ArgsKernel ==
    /\ engine = "kernel"
    /\ fmt = DefaultFormat
    /\ \E rows \in 1..(MaxSupport + 1), nf \in 1..MaxFeatures :
           support_vectors \in SvMatrices(rows, nf)
    /\ \E n \in 1..(MaxSupport + 1) :
           /\ n /= len(support_vectors)
           /\ dual_coef \in CoefArrays(n)
    /\ bias = 0
    /\ gamma = 16
    /\ weights = NoArray
    /\ n_features = 0
    /\ n_support = 0
    /\ lut = NoArray
    /\ operation_count = 0

InitInvalid ==
    /\ ArgsLinear \/ ArgsKernel
    /\ NewCall
    /\ IdleFn
    /\ workers = NoWorkers
    /\ driver = NoDriver

\* LinearSVMSimulator.__init__
LinConstruct ==
    /\ engine = "linear"
    /\ pc = "new"
    /\ n_features' = len(weights)
    /\ operation_count' = 0
    /\ pc' = "idle"
    /\ UNCHANGED <<engine, fmt, weights, support_vectors, dual_coef, bias, gamma,
                   n_support, lut, fn_vars, counter, calls, batch,
                   x, i, j, acc, dist_sq, diff, kernel_val, result, prediction>>
    /\ UNCHANGED <<workers, driver>>

\* KernelSVMSimulator.__init__
KerConstruct ==
    /\ engine = "kernel"
    /\ pc = "new"
    /\ n_support' = len(dual_coef)
    /\ n_features' = len(support_vectors[0])
    /\ operation_count' = 0
    /\ lut' = LutTables[gamma]
    /\ pc' = "idle"
    /\ UNCHANGED <<engine, fmt, weights, support_vectors, dual_coef, bias, gamma,
                   fn_vars, counter, calls, batch,
                   x, i, j, acc, dist_sq, diff, kernel_val, result, prediction>>
    /\ UNCHANGED <<workers, driver>>

\* LinearSVMSimulator.predict_sample: x[i] with i past the end of x raises
\* IndexError out of the loop
LinIndexError ==
    /\ engine = "linear"
    /\ pc = "loop"
    /\ i < n_features
    /\ i \notin DOMAIN x
    /\ pc' = "error"
    /\ UNCHANGED <<engine_vars, fn_vars, operation_count, counter, calls, batch,
                   x, i, j, acc, dist_sq, diff, kernel_val, result, prediction>>
    /\ UNCHANGED <<workers, driver>>

\* KernelSVMSimulator.predict_sample: self.support_vectors[j] with j past the
\* last row raises IndexError out of the loop
KerIndexError ==
    /\ engine = "kernel"
    /\ pc = "sv"
    /\ j < n_support
    /\ j \notin DOMAIN support_vectors
    /\ pc' = "error"
    /\ UNCHANGED <<engine_vars, fn_vars, operation_count, counter, calls, batch,
                   x, i, j, acc, dist_sq, diff, kernel_val, result, prediction>>
    /\ UNCHANGED <<workers, driver>>

NextInvalid ==
    \/ LinConstruct
    \/ \E n \in 1..(MaxFeatures + 1) : \E x_fp \in InputsOfLength(n) :
           /\ n /= n_features
           /\ LinStart(x_fp)
           /\ UNCHANGED batch
    \/ (i \in DOMAIN x /\ LinLoop)
    \/ LinIndexError
    \/ LinFinish
    \/ KerConstruct
    \/ \E x_fp \in KernelInputs(n_features) : KerStart(x_fp) /\ UNCHANGED batch
    \/ (j \in DOMAIN support_vectors /\ KerEnterDistance)
    \/ KerIndexError
    \/ KerFeature
    \/ KerKernel
    \/ KerFinish

SpecInvalid == InitInvalid /\ [][NextInvalid]_vars

-----------------------------------------------------------------------------
(* The batch predict(X_fp) of both simulators: predict_sample is called on *)
(* each sample in turn; predict_sample is also called directly, before the *)
(* batch. The Python lists of predict are sequences.                       *)

\* bound of the model: the longest batch
MaxBatch == 2

\* the samples a batch is made of
BatchSamples ==
    IF engine = "linear"
    THEN {Row(n_features, 256, 256), Row(n_features, -32768, 32767)}
    ELSE {Row(n_features, 256, 256), Row(n_features, 32767, 256)}

\* the batches X_fp, the empty one included
Batches == UNION {[1..m -> BatchSamples] : m \in 0..MaxBatch}

\* the engines batches are run on
InitBatch ==
    /\ Init
    /\ engine = "linear" => \E a \in WeightVals, b \in WeightVals :
                                weights = Row(n_features, a, b)
    /\ engine = "kernel" => (gamma = 16 /\ bias = 0)

\* predict: entry, the empty lists and total_ops = 0
PredictBegin(X_fp) ==
    /\ batch.st = "none"
    /\ pc \in {"idle", "done"}
    /\ batch' = [st |-> "running", X |-> X_fp, k |-> 0, predictions |-> << >>,
                 decision_values |-> << >>, total_ops |-> 0,
                 avg_ops |-> [num |-> 0, den |-> 1]]
    /\ UNCHANGED <<engine_vars, fn_vars, operation_count, counter, calls, call_vars>>
    /\ UNCHANGED <<workers, driver>>

\* "for sample in X_fp": the call self.predict_sample(sample)
PredictCall ==
    /\ batch.st = "running"
    /\ batch.k < Len(batch.X)
    /\ \/ LinStart(batch.X[batch.k + 1])
       \/ KerStart(batch.X[batch.k + 1])
    /\ batch' = [batch EXCEPT !.st = "calling"]
    /\ UNCHANGED <<workers, driver>>

\* predict_sample has returned: the appends and total_ops += operation_count
PredictCollect ==
    /\ batch.st = "calling"
    /\ pc = "done"
    /\ batch' = [batch EXCEPT !.st = "running",
                              !.k = @ + 1,
                              !.predictions = Append(@, prediction),
                              !.decision_values = Append(@, result),
                              !.total_ops = @ + operation_count]
    /\ UNCHANGED <<engine_vars, fn_vars, operation_count, counter, calls, call_vars>>
    /\ UNCHANGED <<workers, driver>>

\* after the loop: avg_ops = total_ops / len(X_fp), kept as a fraction, and
\* the return of the three values
PredictReturn ==
    /\ batch.st = "running"
    /\ batch.k = Len(batch.X)
    /\ Len(batch.X) > 0
    /\ batch' = [batch EXCEPT !.st = "returned",
                              !.avg_ops = [num |-> batch.total_ops,
                                           den |-> Len(batch.X)]]
    /\ UNCHANGED <<engine_vars, fn_vars, operation_count, counter, calls, call_vars>>
    /\ UNCHANGED <<workers, driver>>

\* after the loop over an empty X_fp: total_ops / 0 raises ZeroDivisionError
PredictZeroDivision ==
    /\ batch.st = "running"
    /\ batch.k = Len(batch.X)
    /\ Len(batch.X) = 0
    /\ batch' = [batch EXCEPT !.st = "error"]
    /\ UNCHANGED <<engine_vars, fn_vars, operation_count, counter, calls, call_vars>>
    /\ UNCHANGED <<workers, driver>>

NextBatch ==
    \/ \E x_fp \in BatchSamples :
           /\ batch.st = "none"
           /\ LinStart(x_fp) \/ KerStart(x_fp)
           /\ UNCHANGED batch
    \/ \E X_fp \in Batches : PredictBegin(X_fp)
    \/ PredictCall
    \/ PredictCollect
    \/ PredictReturn
    \/ PredictZeroDivision
    \/ LinLoop
    \/ LinFinish
    \/ KerEnterDistance
    \/ KerFeature
    \/ KerKernel
    \/ KerFinish

SpecBatch == InitBatch /\ [][NextBatch]_vars

-----------------------------------------------------------------------------
(* Two workers run the batch predict(X_fp) of one LinearSVMSimulator at the *)
(* same time. The locals of predict and predict_sample belong to a worker; *)
(* self.operation_count is the one field of the shared instance. The       *)
(* statement "self.operation_count += n" is a load and a store, and the    *)
(* other worker may run between the two.                                   *)

Workers == {1, 2}

\* the locals of a worker that has entered predict(X_fp)
WorkerEntry(X_fp) ==
    [st |-> "ready", X |-> X_fp, k |-> 0, predictions |-> << >>,
     decision_values |-> << >>, total_ops |-> 0,
     avg_ops |-> [num |-> 0, den |-> 1],
     x |-> NoArray, i |-> 0, acc |-> 0, tmp |-> 0, result |-> 0, prediction |-> 0]

\* one instance, and each worker at the entry of predict with its own batch
\* of one sample
InitConcurrent ==
    /\ InitLinear
    /\ \E a \in {256, -256} : weights = Row(n_features, 256, a)
    /\ bias = 0
    /\ IdleCall
    /\ IdleFn
    /\ driver = NoDriver
    /\ workers \in [Workers -> {WorkerEntry(X_fp) : X_fp \in [1..1 -> BatchSamples]}]

\* the variables no worker step changes
shared_frame == <<engine_vars, counter, calls, batch, driver, call_vars, fn_vars>>

\* predict: "for sample in X_fp", the call of predict_sample up to its loop
WorkerStart(w) ==
    /\ workers[w].st = "ready"
    /\ workers[w].k < Len(workers[w].X)
    /\ operation_count' = 0
    /\ workers' = [workers EXCEPT ![w].st = "loop",
                                  ![w].x = workers[w].X[workers[w].k + 1],
                                  ![w].acc = 0,
                                  ![w].i = 0]
    /\ UNCHANGED shared_frame

\* predict_sample: one pass of the loop up to the load of self.operation_count
WorkerLoopLoad(w) ==
    /\ workers[w].st = "loop"
    /\ workers[w].i < n_features
    /\ workers' = [workers EXCEPT
           ![w].acc = fixed_add(@, fixed_mult(weights[workers[w].i],
                                              workers[w].x[workers[w].i])),
           ![w].tmp = operation_count,
           ![w].st = "store"]
    /\ UNCHANGED <<operation_count, shared_frame>>

\* predict_sample: the store of self.operation_count += 2
WorkerLoopStore(w) ==
    /\ workers[w].st = "store"
    /\ operation_count' = workers[w].tmp + 2
    /\ workers' = [workers EXCEPT ![w].i = @ + 1, ![w].st = "loop"]
    /\ UNCHANGED shared_frame

\* predict_sample: the bias added, up to the load of self.operation_count
WorkerBiasLoad(w) ==
    /\ workers[w].st = "loop"
    /\ workers[w].i = n_features
    /\ workers' = [workers EXCEPT ![w].result = fixed_add(workers[w].acc, bias),
                                  ![w].tmp = operation_count,
                                  ![w].st = "bias_store"]
    /\ UNCHANGED <<operation_count, shared_frame>>

\* predict_sample: the store of self.operation_count += 1, the sign, return
WorkerBiasStore(w) ==
    /\ workers[w].st = "bias_store"
    /\ operation_count' = workers[w].tmp + 1
    /\ workers' = [workers EXCEPT ![w].prediction = Classify(workers[w].result),
                                  ![w].st = "collect"]
    /\ UNCHANGED shared_frame

\* predict: the appends and total_ops += self.operation_count
WorkerCollect(w) ==
    /\ workers[w].st = "collect"
    /\ workers' = [workers EXCEPT
           ![w].predictions = Append(@, workers[w].prediction),
           ![w].decision_values = Append(@, workers[w].result),
           ![w].total_ops = @ + operation_count,
           ![w].k = @ + 1,
           ![w].st = "ready"]
    /\ UNCHANGED <<operation_count, shared_frame>>

\* predict: avg_ops = total_ops / len(X_fp), kept as a fraction, and return
WorkerReturn(w) ==
    /\ workers[w].st = "ready"
    /\ workers[w].k = Len(workers[w].X)
    /\ workers' = [workers EXCEPT
           ![w].avg_ops = [num |-> workers[w].total_ops, den |-> Len(workers[w].X)],
           ![w].st = "returned"]
    /\ UNCHANGED <<operation_count, shared_frame>>

NextConcurrent ==
    \E w \in Workers :
        \/ WorkerStart(w)
        \/ WorkerLoopLoad(w)
        \/ WorkerLoopStore(w)
        \/ WorkerBiasLoad(w)
        \/ WorkerBiasStore(w)
        \/ WorkerCollect(w)
        \/ WorkerReturn(w)

SpecConcurrent == InitConcurrent /\ [][NextConcurrent]_vars

-----------------------------------------------------------------------------
(* pynq_driver.py: SVMAccelerator. A 32-bit register value is the pair of  *)
(* its 16-bit halves <<high, low>>. What a read returns is the device's     *)
(* choice. driver.accesses is the list of the register accesses of the     *)
(* running predict call: <<"w", offset, value>> for a write, <<"r", offset, *)
(* value & 0x01>> for a read of the status register and <<"r", offset>>    *)
(* for any other read. driver.reads counts the reads of the status         *)
(* register the call has made, driver.done_seen tells that one of them had *)
(* the Done bit set.                                                       *)

\* 0x00, control
ControlOffset == 0

\* 0x04, status
StatusOffset == 4

\* 0x08, result
ResultOffset == 8

\* 0x0C, latency
LatencyOffset == 12

\* 0x10, bias
BiasOffset == 16

\* 0x20, the first weight
WeightsBase == 32

\* 0x80, the first feature
FeaturesBase == 128

\* timeout = 1000
PollBudget == 1000

\* int(value) & 0xFFFFFFFF
Mask32(v) == <<(v \div HALF) % HALF, v % HALF>>

\* (~raw_res + 1) & 0xFFFFFFFF
Negate32(raw) ==
    <<(HALF - 1 - raw[1] + (IF raw[2] = 0 THEN 1 ELSE 0)) % HALF,
      (HALF - raw[2]) % HALF>>

\* the conversion without the "+ 1"
ToSigned_OnesComplement(raw) ==
    IF raw[1] >= HALF \div 2
    THEN LET m == <<HALF - 1 - raw[1], HALF - 1 - raw[2]>>
         IN  (-m[1]) * HALF - m[2]
    ELSE raw[1] * HALF + raw[2]

\* "if raw_res & 0x80000000: result = -((~raw_res + 1) & 0xFFFFFFFF)
\*  else: result = raw_res"
ToSigned(raw) ==
    IF raw[1] >= HALF \div 2
    THEN LET m == Negate32(raw)
         IN  (-m[1]) * HALF - m[2]
    ELSE raw[1] * HALF + raw[2]

\* the sign test with 0 on the wrong side
DriverClassify_Strict(res) == IF res > 0 THEN 1 ELSE 0

\* prediction = 1 if result >= 0 else 0
DriverClassify(res) == IF res >= 0 THEN 1 ELSE 0

\* the registers after a write
Put(regs, off, val) ==
    [o \in (DOMAIN regs) \cup {off} |-> IF o = off THEN val ELSE regs[o]]

\* write_reg(off, v) during load_parameters
LoadReg(d, off, v) == [d EXCEPT !.regs = Put(@, off, Mask32(v))]

\* write_reg(off, v) during predict
WriteReg(d, off, v) ==
    [d EXCEPT !.regs = Put(@, off, Mask32(v)),
              !.accesses = Append(@, <<"w", off, Mask32(v)>>)]

\* the numbers of weights and features of the models loaded
DriverSizes == {2, 25, 40}

\* values the status register is read as
StatusVals == {0, 1, 2}

\* values the result register is read as
ResultVals ==
    {<<0, 0>>, <<0, 1>>, <<32767, 65535>>, <<32768, 0>>, <<32768, 1>>,
     <<65535, 0>>, <<65535, 65535>>}

\* values the latency register is read as
LatencyVals == {0, 6}

\* SVMAccelerator.__init__, and the linear_params of the JSON file at hand
InitDriver ==
    /\ engine = "driver"
    /\ fmt = DefaultFormat
    /\ n_features \in DriverSizes
    /\ weights = Row(n_features, 256, -256)
    /\ bias = -256
    /\ support_vectors = NoArray
    /\ dual_coef = NoArray
    /\ gamma = 0
    /\ n_support = 0
    /\ lut = NoArray
    /\ operation_count = 0
    /\ IdleCall
    /\ IdleFn
    /\ workers = NoWorkers
    /\ driver = [pc |-> "idle", regs |-> << >>, accesses |-> << >>,
                 features |-> NoArray, i |-> 0, timeout |-> 0, status |-> 0,
                 raw_res |-> <<0, 0>>, result |-> 0, prediction |-> 0,
                 reads |-> 0, done_seen |-> FALSE,
                 outcome |-> "none", ret |-> <<0, 0, 0>>]

\* the variables no step of the driver changes
driver_frame ==
    <<engine_vars, operation_count, counter, calls, batch, workers, call_vars, fn_vars>>

\* load_parameters: the bias
DriverLoadBias ==
    /\ driver.pc = "idle"
    /\ driver' = [LoadReg(driver, BiasOffset, bias) EXCEPT !.pc = "weights", !.i = 0]
    /\ UNCHANGED driver_frame

\* load_parameters: one weight
DriverLoadWeight ==
    /\ driver.pc = "weights"
    /\ driver.i < len(weights)
    /\ driver' = [LoadReg(driver, WeightsBase + driver.i * 4, weights[driver.i])
                      EXCEPT !.i = @ + 1]
    /\ UNCHANGED driver_frame

\* load_parameters: return
DriverLoaded ==
    /\ driver.pc = "weights"
    /\ driver.i = len(weights)
    /\ driver' = [driver EXCEPT !.pc = "loaded"]
    /\ UNCHANGED driver_frame

\* predict: entry
DriverPredict(features) ==
    /\ driver.pc = "loaded"
    /\ driver' = [driver EXCEPT !.pc = "features", !.features = features, !.i = 0]
    /\ UNCHANGED driver_frame

\* predict: one feature written
DriverWriteFeature ==
    /\ driver.pc = "features"
    /\ driver.i < len(driver.features)
    /\ driver' = [WriteReg(driver, FeaturesBase + driver.i * 4,
                           driver.features[driver.i]) EXCEPT !.i = @ + 1]
    /\ UNCHANGED driver_frame

\* predict: write_reg(0x00, 2)
DriverResetHigh ==
    /\ driver.pc = "features"
    /\ driver.i = len(driver.features)
    /\ driver' = [WriteReg(driver, ControlOffset, 2) EXCEPT !.pc = "reset"]
    /\ UNCHANGED driver_frame

\* predict: write_reg(0x00, 0) after the reset bit
DriverResetLow ==
    /\ driver.pc = "reset"
    /\ driver' = [WriteReg(driver, ControlOffset, 0) EXCEPT !.pc = "start"]
    /\ UNCHANGED driver_frame

\* predict: write_reg(0x00, 1)
DriverStartHigh ==
    /\ driver.pc = "start"
    /\ driver' = [WriteReg(driver, ControlOffset, 1) EXCEPT !.pc = "started"]
    /\ UNCHANGED driver_frame

\* the start bit left set: polling begins after write_reg(0x00, 1)
DriverStartLow_LeftHigh ==
    /\ driver.pc = "started"
    /\ driver' = [driver EXCEPT !.pc = "poll", !.timeout = PollBudget]
    /\ UNCHANGED driver_frame

\* predict: write_reg(0x00, 0) after the start bit, and timeout = 1000
DriverStartLow ==
    /\ driver.pc = "started"
    /\ driver' = [WriteReg(driver, ControlOffset, 0)
                      EXCEPT !.pc = "poll", !.timeout = PollBudget]
    /\ UNCHANGED driver_frame

\* one pass of the loop with the decrement ahead of the test of the Done bit
DriverPoll_DecrementFirst(status) ==
    /\ driver.pc = "poll"
    /\ driver.timeout > 0
    /\ driver' = [driver EXCEPT
           !.status = status,
           !.accesses = Append(@, <<"r", StatusOffset, <<0, status % 2>>>>),
           !.reads = @ + 1,
           !.done_seen = (@ \/ status % 2 = 1),
           !.timeout = @ - 1,
           !.pc = IF status % 2 = 1 \/ driver.timeout - 1 = 0 THEN "polled" ELSE "poll"]
    /\ UNCHANGED driver_frame

\* predict: one pass of "while timeout > 0": the status read, break on the
\* Done bit, else timeout -= 1; "polled" is the exit of the loop
DriverPoll(status) ==
    /\ driver.pc = "poll"
    /\ driver.timeout > 0
    /\ driver' = [driver EXCEPT
           !.status = status,
           !.accesses = Append(@, <<"r", StatusOffset, <<0, status % 2>>>>),
           !.reads = @ + 1,
           !.done_seen = (@ \/ status % 2 = 1),
           !.timeout = IF status % 2 = 1 THEN @ ELSE @ - 1,
           !.pc = IF status % 2 = 1 \/ driver.timeout - 1 = 0 THEN "polled" ELSE "poll"]
    /\ UNCHANGED driver_frame

\* predict: "if timeout == 0: return 0, 0, 0"
DriverTimeout ==
    /\ driver.pc = "polled"
    /\ driver.timeout = 0
    /\ driver' = [driver EXCEPT !.pc = "returned", !.outcome = "timeout",
                                !.ret = <<0, 0, 0>>]
    /\ UNCHANGED driver_frame

\* predict: the result read, converted to signed, and the sign test
DriverReadResult(raw) ==
    /\ driver.pc = "polled"
    /\ driver.timeout /= 0
    /\ driver' = [driver EXCEPT
           !.raw_res = raw,
           !.accesses = Append(@, <<"r", ResultOffset>>),
           !.result = ToSigned(raw),
           !.prediction = DriverClassify(ToSigned(raw)),
           !.pc = "latency"]
    /\ UNCHANGED driver_frame

\* predict: the latency read and the return of the three values
DriverReadLatency(cycles) ==
    /\ driver.pc = "latency"
    /\ driver' = [driver EXCEPT
           !.accesses = Append(@, <<"r", LatencyOffset>>),
           !.pc = "returned",
           !.outcome = "success",
           !.ret = <<driver.prediction, driver.result, cycles>>]
    /\ UNCHANGED driver_frame

NextDriver ==
    \/ DriverLoadBias
    \/ DriverLoadWeight
    \/ DriverLoaded
    \/ \E a \in {256, -256} : DriverPredict(Row(n_features, a, 256))
    \/ DriverWriteFeature
    \/ DriverResetHigh
    \/ DriverResetLow
    \/ DriverStartHigh
    \/ DriverStartLow
    \/ \E status \in StatusVals : DriverPoll(status)
    \/ DriverTimeout
    \/ \E raw \in ResultVals : DriverReadResult(raw)
    \/ \E cycles \in LatencyVals : DriverReadLatency(cycles)

SpecDriver == InitDriver /\ [][NextDriver]_vars

-----------------------------------------------------------------------------
(* HardwareCounter alone: any sequence of its operations, with n >= 0.     *)
(* fn is the operation applied last and fa its argument.                   *)

\* bound of the model: the largest total_ops counted
MaxOps == 6

\* the arguments n of the counting operations
CountArgs == 0..2

\* HardwareCounter.__init__
InitCounter ==
    /\ engine = "counter"
    /\ fmt = DefaultFormat
    /\ weights = NoArray
    /\ support_vectors = NoArray
    /\ dual_coef = NoArray
    /\ bias = 0
    /\ gamma = 0
    /\ n_features = 0
    /\ n_support = 0
    /\ lut = NoArray
    /\ operation_count = 0
    /\ IdleCall
    /\ IdleFn
    /\ workers = NoWorkers
    /\ driver = NoDriver

\* the counter after the operation op with argument n
CounterApply(op, n, after) ==
    /\ after.total_ops <= MaxOps
    /\ counter' = after
    /\ fn' = op
    /\ fa' = n
    /\ UNCHANGED <<engine_vars, operation_count, calls, batch, workers, driver,
                   call_vars, fb, fr, findex, pd, pr>>

\* counter.reset()
CounterOpReset == CounterApply("reset", 0, ZeroCounter)

\* counter.mac(n)
CounterOpMac(n) == CounterApply("mac", n, CounterMac(counter, n))

\* counter.add(n)
CounterOpAdd(n) == CounterApply("add", n, CounterAdd(counter, n))

\* counter.mult(n)
CounterOpMult(n) == CounterApply("mult", n, CounterMult(counter, n))

\* counter.comp(n)
CounterOpComp(n) == CounterApply("comp", n, CounterComp(counter, n))

\* counter.lut(n)
CounterOpLut(n) == CounterApply("lut", n, CounterLut(counter, n))

NextCounter ==
    \/ CounterOpReset
    \/ \E n \in CountArgs : CounterOpMac(n)
    \/ \E n \in CountArgs : CounterOpAdd(n)
    \/ \E n \in CountArgs : CounterOpMult(n)
    \/ \E n \in CountArgs : CounterOpComp(n)
    \/ \E n \in CountArgs : CounterOpLut(n)

SpecCounter == InitCounter /\ [][NextCounter]_vars

-----------------------------------------------------------------------------
(* Properties of the arithmetic and of the lookup table, under SpecFn *)

\* C1: for 16-bit a, b the values returned by fixed_mult and fixed_add lie
\* in [-32768, 32767]; an exact result above the range is returned as 32767
\* and one below it as -32768 (fixed_mult(-32768, -32768) = 32767,
\* fixed_add(-32768, -1) = -32768), never a wrapped value.
C1_SaturatesToBoundary ==
    /\ fn = "fixed_mult" =>
          /\ fr \in (-32768)..32767
          /\ fa * fb > 32767 * 256 => fr = 32767
          /\ fa * fb < (-32768) * 256 => fr = -32768
          /\ (fa = -32768 /\ fb = -32768) => fr = 32767
    /\ fn = "fixed_add" =>
          /\ fr \in (-32768)..32767
          /\ fa + fb > 32767 => fr = 32767
          /\ fa + fb < -32768 => fr = -32768
          /\ (fa = -32768 /\ fb = -1) => fr = -32768

C1_Witness ==
    /\ fn = "fixed_add"
    /\ fa = -32768
    /\ fb = -1
    /\ fr = -32768

\* C2: fixed_mult(a, b) is the floor of a*b / 2^frac_bits, saturated: when
\* the floor is in range the returned r satisfies 256*r <= a*b < 256*(r+1),
\* so a negative product that is no multiple of 256 is rounded down
\* (fixed_mult(-1, 1) = -1).
C2_MultFloors ==
    fn = "fixed_mult" =>
        LET p == fa * fb
        IN  /\ (p >= (-32768) * 256 /\ p < 32768 * 256) =>
                  (256 * fr <= p /\ p < 256 * (fr + 1))
            /\ p >= 32768 * 256 => fr = 32767
            /\ p < (-32768) * 256 => fr = -32768
            /\ (fa = -1 /\ fb = 1) => fr = -1

C2_Witness ==
    /\ fn = "fixed_mult"
    /\ fa = -1
    /\ fb = 1
    /\ fr = -1

\* C7: exp_approximation never leaves the table: the index is in [0, 255],
\* every dist_sq >= 4096 returns lut[255] and every dist_sq <= 0 returns
\* lut[0].
C7_LookupClamps ==
    fn = "exp_approximation" =>
        /\ findex \in 0..255
        /\ fr = lut[findex]
        /\ fa >= 4096 => (findex = 255 /\ fr = lut[255])
        /\ fa <= 0 => (findex = 0 /\ fr = lut[0])

C7_Witness ==
    /\ fn = "exp_approximation"
    /\ fa = 32767
    /\ gamma = 16
    /\ fr = lut[255]
    /\ fr < lut[0]

\* C8: for gamma > 0 the table entries are non-increasing in the index and
\* the lookup is non-increasing in the distance: d1 <= d2 implies
\* exp_approximation(d1) >= exp_approximation(d2).
C8_LookupMonotonic ==
    gamma > 0 =>
        /\ \A idx \in 0..254 : lut[idx] >= lut[idx + 1]
        /\ (fn = "exp_approximation" /\ pd <= fa) => pr >= fr

C8_Witness ==
    /\ gamma > 0
    /\ fn = "exp_approximation"
    /\ pd < fa
    /\ pr > fr

\* C10: build_exp_lut stores v_i = exp(-(gamma/scale)*d_i)*scale rounded to
\* the nearest integer: when the fractional part of v_i is at least 0.5
\* the stored entry is ceil(v_i).
C10_LutRoundsToNearest ==
    \A idx \in 0..255 :
        LET ref == LutReference(gamma, idx)
        IN  ref[2] >= 2 ^ 21 => lut[idx] = ref[1] + 1

-----------------------------------------------------------------------------
(* Properties of predict_sample, under Spec *)

RECURSIVE LinearFold(_, _, _)
\* acc after the first k features, folded left to right from 0
LinearFold(w, xs, k) ==
    IF k = 0 THEN 0
    ELSE fixed_add(LinearFold(w, xs, k - 1), fixed_mult(w[k - 1], xs[k - 1]))

\* C4: the decision of LinearSVMSimulator.predict_sample is the sequential
\* left-to-right fold acc = fixed_add(acc, fixed_mult(weights[i], x[i])) from
\* acc = 0 over i = 0..n_features-1, saturating at every step, followed by
\* fixed_add(acc, bias); weights [256, -256], x [256, 256], bias 0 give 0.
C4_LinearDecisionIsFold ==
    engine = "linear" =>
        /\ pc = "loop" => acc = LinearFold(weights, x, i)
        /\ pc = "done" =>
              result = fixed_add(LinearFold(weights, x, n_features), bias)
        /\ ( /\ pc = "done"
             /\ n_features = 2
             /\ weights[0] = 256 /\ weights[1] = -256
             /\ x[0] = 256 /\ x[1] = 256
             /\ bias = 0 ) => result = 0

C4_Witness ==
    /\ engine = "linear"
    /\ pc = "done"
    /\ n_features = 2
    /\ weights[0] = 256 /\ weights[1] = -256
    /\ x[0] = 256 /\ x[1] = 256
    /\ bias = 0
    /\ result = 0

RECURSIVE DistanceFold(_, _, _)
\* dist_sq after the first k features of one support vector; diff is the
\* difference as compute_distance_sq forms it
DistanceFold(xs, sv, k) ==
    IF k = 0 THEN 0
    ELSE LET d == saturate(SubInt16(xs[k - 1], sv[k - 1]))
         IN  fixed_add(DistanceFold(xs, sv, k - 1), fixed_mult(d, d))

RECURSIVE KernelFold(_, _, _, _, _, _)
\* acc after the first k support vectors, in array order from 0
KernelFold(xs, svs, coef, table, nf, k) ==
    IF k = 0 THEN 0
    ELSE LET k_val == exp_approximation(table, DistanceFold(xs, svs[k - 1], nf))
         IN  fixed_add(KernelFold(xs, svs, coef, table, nf, k - 1),
                       fixed_mult(coef[k - 1], k_val))

\* C5: KernelSVMSimulator.predict_sample takes the support vectors in array
\* order: dist_sq is the saturating fold over the features, k_val its
\* lookup, acc = fixed_add(acc, fixed_mult(dual_coef[j], k_val)) for
\* j = 0..n_support-1, and the decision is fixed_add(acc, bias).
C5_KernelDecisionIsFold ==
    engine = "kernel" =>
        /\ pc \in {"sv", "dist"} =>
              acc = KernelFold(x, support_vectors, dual_coef, lut, n_features, j)
        /\ pc = "dist" => dist_sq = DistanceFold(x, support_vectors[j], i)
        /\ pc = "done" =>
              result = fixed_add(KernelFold(x, support_vectors, dual_coef, lut,
                                            n_features, n_support), bias)

C5_Witness ==
    /\ engine = "kernel"
    /\ pc = "done"
    /\ n_support = 2
    /\ n_features = 2
    /\ dual_coef[0] # dual_coef[1]
    /\ DistanceFold(x, support_vectors[0], 2) # DistanceFold(x, support_vectors[1], 2)
    /\ gamma = 16

\* C6: both simulators return class 1 exactly when the decision is >= 0 and
\* class 0 exactly when it is < 0; a decision of 0 gives class 1.
C6_ClassIsSign ==
    pc = "done" =>
        /\ prediction \in {0, 1}
        /\ prediction = 1 <=> result >= 0
        /\ prediction = 0 <=> result < 0

C6_Witness ==
    /\ pc = "done"
    /\ result = 0
    /\ prediction = 1

\* C9: when x equals support vector j in every component, dist_sq is 0 for
\* it and the kernel value used is lut[0], which is 256 (exp(0) = 1 in Q8.8)
\* and the largest entry of the table.
C9_EqualInputUsesFirstEntry ==
    ( /\ engine = "kernel"
      /\ pc \in {"sv", "done"}
      /\ j >= 1
      /\ x = support_vectors[j - 1] ) =>
        /\ dist_sq = 0
        /\ kernel_val = lut[0]
        /\ lut[0] = 256
        /\ \A idx \in 0..255 : lut[idx] <= lut[0]

C9_Witness ==
    /\ engine = "kernel"
    /\ pc = "sv"
    /\ j >= 1
    /\ n_features = 2
    /\ gamma = 16
    /\ x = support_vectors[j - 1]
    /\ kernel_val = 256

\* C3: in compute_distance_sq diff is the exact integer difference
\* x[i] - sv[i] clipped into [-32768, 32767]; the subtraction does not wrap
\* modulo 2^16 before the saturation.
C3_DiffIsClippedExactDifference ==
    (engine = "kernel" /\ pc = "dist" /\ i >= 1) =>
        LET exact == x[i - 1] - support_vectors[j][i - 1]
        IN  /\ exact > 32767 => diff = 32767
            /\ exact < -32768 => diff = -32768
            /\ exact \in (-32768)..32767 => diff = exact

-----------------------------------------------------------------------------
(* Properties of saturate under a configured format, under SpecFormat *)

\* C11: saturate(raw) clips raw into the range of the format the instance
\* was constructed with, [-2^(total_bits-1), 2^(total_bits-1)-1], not into
\* a fixed 16-bit range.
C11_SaturateFollowsFormat ==
    fn = "saturate" =>
        LET lo == -(2 ^ (fmt.total_bits - 1))
            hi == 2 ^ (fmt.total_bits - 1) - 1
        IN  fr = IF fa < lo THEN lo ELSE IF fa > hi THEN hi ELSE fa

-----------------------------------------------------------------------------
(* Properties of the hardware evaluation engines, under SpecHw *)

\* C12, as stated: after HardwareLinearSVM.predict over n features the counter
\* reports macs = n, adds = 1 and comps = 1.
C12_LinearTallyAsStated ==
    (engine = "hw_linear" /\ pc = "done") =>
        /\ counter.macs = n_features
        /\ counter.adds = 1
        /\ counter.comps = 1

\* C12, amended: after HardwareLinearSVM.predict over n features, for every
\* input and every parameter value, the counter reports macs = n, mults = n,
\* adds = n + 1 (one per multiply-accumulate and the bias add), comps = 1,
\* luts = 0 and total_ops = 2n + 2.
C12_LinearTally ==
    (engine = "hw_linear" /\ pc = "done") =>
        counter = [macs |-> n_features, adds |-> n_features + 1,
                   mults |-> n_features, comps |-> 1, luts |-> 0,
                   total_ops |-> 2 * n_features + 2]

C12_Witness ==
    /\ engine = "hw_linear"
    /\ pc = "done"
    /\ n_features >= 2
    /\ x[0] /= x[1]
    /\ weights[0] /= weights[1]
    /\ counter.adds = n_features + 1

\* C13: after HardwareKernelSVM.predict with S support vectors and F features,
\* for every input, adds = S*(2F+1) + 1, mults = S*(F+1) and luts = S.
C13_KernelTally ==
    (engine = "hw_kernel" /\ pc = "done") =>
        /\ counter.adds = n_support * (2 * n_features + 1) + 1
        /\ counter.mults = n_support * (n_features + 1)
        /\ counter.luts = n_support

C13_Witness ==
    /\ engine = "hw_kernel"
    /\ pc = "done"
    /\ n_support >= 2
    /\ n_features >= 2
    /\ x[0] /= x[1]
    /\ counter.luts = n_support

\* the counts of the running or finished predict call alone, from its position
TallyOfCall ==
    IF engine = "hw_linear"
    THEN LET looped == CounterMac(ZeroCounter, i)
         IN  IF pc = "done" THEN CounterComp(CounterAdd(looped, 1), 1) ELSE looped
    ELSE LET vectors == CounterMac(CounterLut(CounterMult(
                            CounterAdd(ZeroCounter, 2 * n_features * j),
                            n_features * j), j), j)
             features == CounterMult(CounterAdd(vectors, 2 * i), i)
         IN  IF pc = "done" THEN CounterComp(CounterAdd(vectors, 1), 1)
             ELSE IF pc = "dist" THEN features
             ELSE vectors

\* C14: the counter is reset at the start of every predict call: during and
\* after any predict call, however many calls came before it on the same
\* instance, the counter holds the counts of that call alone.
C14_CountersOfLastCallOnly ==
    pc \in {"loop", "sv", "dist", "done"} => counter = TallyOfCall

C14_Witness ==
    /\ calls = "repeated"
    /\ pc = "done"
    /\ engine = "hw_kernel"
    /\ counter.total_ops > 0

\* the least k with 2^k >= n
RECURSIVE CeilLog2From(_, _)
CeilLog2From(n, k) == IF 2 ^ k >= n THEN k ELSE CeilLog2From(n, k + 1)

CeilLog2(n) == CeilLog2From(n, 0)

\* C15: HardwareLinearSVM.estimate_cycles returns
\* ceil(log2(n_features)) + 1 + 1, whatever the counter holds.
C15_LinearCyclesFollowFeatures ==
    (engine = "hw_linear" /\ pc = "estimated") =>
        result = CeilLog2(n_features) + 1 + 1

\* C16: HardwareKernelSVM.estimate_cycles returns L + (n_support - 1) with
\* the per-support-vector pipeline latency L = 8.
C16_KernelCyclesFollowSupport ==
    (engine = "hw_kernel" /\ pc = "estimated") =>
        result = 8 + (n_support - 1)

-----------------------------------------------------------------------------
(* Properties of the simulators on arguments of unequal lengths, under     *)
(* SpecInvalid                                                             *)

\* C17: LinearSVMSimulator.predict_sample called with an input vector whose
\* length differs from n_features, shorter or longer, fails and returns no
\* class or decision: no call that returned was made on such a vector.
C17_LengthMismatchRejected ==
    (engine = "linear" /\ pc = "done") => len(x) = n_features

\* C18: a KernelSVMSimulator whose number of dual coefficients differs from
\* the number of support-vector rows fails at construction: such a record is
\* never a constructed instance, and no predict call runs on it.
C18_MismatchedRecordRejected ==
    (engine = "kernel" /\ len(dual_coef) /= len(support_vectors)) => pc = "new"

-----------------------------------------------------------------------------
(* Frame and determinism of predict_sample and predict, under SpecBatch *)

\* C19: predict_sample and predict of both simulators leave the parameters of
\* the instance as they were: no step of a call changes the format, weights,
\* bias, support_vectors, dual_coef, gamma, n_features, n_support or any
\* entry of the LUT.
C19_ParametersUnchanged == [][UNCHANGED engine_vars]_vars

C19_Witness ==
    /\ batch.st = "returned"
    /\ Len(batch.X) = MaxBatch
    /\ engine = "kernel"
    /\ operation_count > 0

\* (class, decision) of a sample, from the parameters and the sample alone
PredictSampleOf(x_fp) ==
    LET decision ==
            IF engine = "linear"
            THEN fixed_add(LinearFold(weights, x_fp, n_features), bias)
            ELSE fixed_add(KernelFold(x_fp, support_vectors, dual_coef, lut,
                                      n_features, n_support), bias)
    IN  <<IF decision >= 0 THEN 1 ELSE 0, decision>>

\* C20: what predict_sample(x) returns is a function of the parameters and x
\* only, whatever calls came before and whatever operation_count held, and
\* the m-th prediction and decision of a batch predict(X) are those of
\* predict_sample on the m-th sample, in input order.
C20_ResultDependsOnInputOnly ==
    /\ pc = "done" => <<prediction, result>> = PredictSampleOf(x)
    /\ batch.st \in {"running", "calling", "returned"} =>
          /\ Len(batch.predictions) = batch.k
          /\ Len(batch.decision_values) = batch.k
          /\ \A m \in 1..batch.k :
                 <<batch.predictions[m], batch.decision_values[m]>>
                     = PredictSampleOf(batch.X[m])

C20_Witness ==
    /\ batch.st = "returned"
    /\ Len(batch.X) = MaxBatch
    /\ batch.X[1] /= batch.X[2]
    /\ batch.predictions[1] /= batch.predictions[2]

-----------------------------------------------------------------------------
(* Two workers on one instance, under SpecConcurrent *)

\* C21: when two workers run predict on the same instance at the same time,
\* under every interleaving each call returns the classes and decisions it
\* returns when run alone, and the operation count it derives (total_ops,
\* 2 * n_features + 1 per sample, and the average) is that of the call alone.
C21_SharedInstanceIsSafe ==
    \A w \in Workers :
        workers[w].st = "returned" =>
            /\ \A m \in 1..Len(workers[w].X) :
                   <<workers[w].predictions[m], workers[w].decision_values[m]>>
                       = PredictSampleOf(workers[w].X[m])
            /\ workers[w].total_ops = Len(workers[w].X) * (2 * n_features + 1)
            /\ workers[w].avg_ops = [num |-> Len(workers[w].X) * (2 * n_features + 1),
                                     den |-> Len(workers[w].X)]

-----------------------------------------------------------------------------
(* Properties of SVMAccelerator, under SpecDriver *)

\* the read of the status register with the Done bit set
DoneRead == <<"r", StatusOffset, <<0, 1>>>>

\* the access at place k of a call on F features is the one the order allows
AccessInOrder(A, F, k) ==
    /\ k <= F =>
          A[k] = <<"w", FeaturesBase + 4 * (k - 1), Mask32(driver'.features[k - 1])>>
    /\ k = F + 1 => A[k] = <<"w", ControlOffset, <<0, 2>>>>
    /\ k = F + 2 => A[k] = <<"w", ControlOffset, <<0, 0>>>>
    /\ k = F + 3 => A[k] = <<"w", ControlOffset, <<0, 1>>>>
    /\ k = F + 4 => A[k] = <<"w", ControlOffset, <<0, 0>>>>
    /\ k > F + 4 =>
          /\ A[k][1] = "r"
          /\ A[k][2] \in {ResultOffset, LatencyOffset} =>
                \E m \in 1..(k - 1) : A[m] = DoneRead

\* C22: in SVMAccelerator.predict the feature registers 0x80 + 4*i are
\* written first, in order; then 2 and 0 are written to control, then 1 and
\* 0, so control is 0 while polling; every later access is a read, and the
\* result and latency registers are read only after a status read with the
\* Done bit set. Every step of the call adds at most one access, and the
\* access it adds is the one the order allows at its place.
C22_AccessOrder ==
    [][ /\ driver'.accesses /= driver.accesses =>
              /\ Len(driver'.accesses) = Len(driver.accesses) + 1
              /\ SubSeq(driver'.accesses, 1, Len(driver.accesses)) = driver.accesses
              /\ AccessInOrder(driver'.accesses, len(driver'.features),
                               Len(driver'.accesses))
        /\ driver'.pc = "poll" => driver'.regs[ControlOffset] = <<0, 0>>
      ]_vars

C22_Witness ==
    /\ driver.pc = "returned"
    /\ driver.outcome = "success"
    /\ driver.reads = 3
    /\ Len(driver.accesses) = len(driver.features) + 4 + 3 + 2
    /\ len(driver.features) > 1

\* C23: SVMAccelerator.predict reads the status register at most 1000 times;
\* it returns (0, 0, 0) as a timeout exactly when 1000 reads were made and
\* none had the Done bit set, and then result and latency were never read;
\* a read with the Done bit set, the 1000th included, ends the polling at
\* once and the call returns the hardware result.
C23_PollingIsBounded ==
    LET A == driver.accesses
    IN  /\ driver.reads <= PollBudget
        /\ driver.done_seen => driver.pc \in {"polled", "latency", "returned"}
        /\ driver.pc = "returned" =>
              /\ driver.outcome = "timeout" <=>
                     (driver.reads = PollBudget /\ ~driver.done_seen)
              /\ driver.outcome = "timeout" =>
                     /\ driver.ret = <<0, 0, 0>>
                     /\ A[Len(A)][2] = StatusOffset
              /\ driver.done_seen =>
                     /\ driver.outcome = "success"
                     /\ driver.ret[1] = driver.prediction
                     /\ driver.ret[2] = driver.result
                     /\ A[Len(A) - 2] = DoneRead
                     /\ A[Len(A) - 1] = <<"r", ResultOffset>>
                     /\ A[Len(A)] = <<"r", LatencyOffset>>

C23_Witness ==
    /\ driver.pc = "returned"
    /\ driver.outcome = "success"
    /\ driver.reads = PollBudget

\* raw as a signed 32-bit number: raw below 2^31, raw - 2^32 from there on
SignedOf(raw) ==
    IF raw[1] < HALF \div 2 THEN raw[1] * HALF + raw[2]
    ELSE (raw[1] - HALF) * HALF + raw[2]

\* C24: on the success path the returned result is the two's-complement
\* reading of the raw 32-bit register value (0x80000000 gives -2^31,
\* 0xFFFFFFFF gives -1), and the prediction is 1 exactly when it is >= 0.
C24_ResultIsSigned ==
    (driver.pc = "returned" /\ driver.outcome = "success") =>
        /\ driver.ret[2] = SignedOf(driver.raw_res)
        /\ driver.raw_res = <<32768, 0>> => driver.ret[2] = -(2 ^ 30) - 2 ^ 30
        /\ driver.raw_res = <<65535, 65535>> => driver.ret[2] = -1
        /\ driver.ret[1] = 1 <=> driver.ret[2] >= 0

C24_Witness ==
    /\ driver.pc = "returned"
    /\ driver.outcome = "success"
    /\ driver.raw_res = <<32768, 0>>
    /\ driver.ret[1] = 0

\* C25: the registers load_parameters wrote, bias at 0x10 and weight i at
\* 0x20 + 4*i, are never written by predict: they hold the loaded bias and
\* weights during and after the call.
C25_ParametersSurvivePredict ==
    driver.pc \notin {"none", "idle", "weights"} =>
        /\ driver.regs[BiasOffset] = Mask32(bias)
        /\ \A w \in DOMAIN weights :
               driver.regs[WeightsBase + 4 * w] = Mask32(weights[w])

\* C30: a successful return is never (0, 0, 0): prediction 0 comes with a
\* result below 0.
C30_TimeoutIsDistinct ==
    (driver.pc = "returned" /\ driver.outcome = "success") =>
        /\ driver.ret[1] = 0 => driver.ret[2] < 0
        /\ driver.ret /= <<0, 0, 0>>

C30_Witness ==
    /\ driver.pc = "returned"
    /\ driver.outcome = "success"
    /\ driver.raw_res = <<0, 0>>
    /\ driver.ret = <<1, 0, 0>>

-----------------------------------------------------------------------------
(* The hardware linear engine against the simulator and against exact      *)
(* arithmetic, under SpecHw                                                *)

\* C26: for the same weights, bias and input, HardwareLinearSVM.predict
\* returns the class LinearSVMSimulator.predict_sample returns, which is the
\* sign test of the saturating fold of C4.
C26_HardwareMatchesSimulator ==
    (engine = "hw_linear" /\ pc = "done") =>
        prediction = IF fixed_add(LinearFold(weights, x, n_features), bias) >= 0
                     THEN 1 ELSE 0

RECURSIVE ExactDot(_, _, _)
\* the exact integer sum of w[m] * xs[m] over m < k, split
ExactDot(w, xs, k) ==
    IF k = 0 THEN <<0, 0>>
    ELSE AddSplit(ExactDot(w, xs, k - 1), Split(w[k - 1] * xs[k - 1]))

\* C28: in HardwareLinearSVM.predict the 32-bit accumulator never overflows:
\* acc is the exact sum of the products so far, val is the exact sum of all
\* products plus bias * 256, and the class is the sign test of that sum.
C28_AccumulatorIsExact ==
    engine = "hw_linear" =>
        /\ pc = "loop" => Split(acc) = ExactDot(weights, x, i)
        /\ pc = "done" =>
              LET exact == AddSplit(ExactDot(weights, x, n_features), Split(bias * 256))
              IN  /\ result = exact
                  /\ prediction = IF exact[1] >= 0 THEN 1 ELSE 0

-----------------------------------------------------------------------------
(* The lookup at the distances the table was built at, under SpecFn *)

\* build_exp_lut: the Q8.8 distance of entry idx, (idx / lut_size) * max_dist
BuildDistance(idx) == (idx * max_dist * scale) \div lut_size

\* C27: looking up the distance at which entry idx was built, 16 * idx,
\* returns entry idx of the table, for every idx in 0..255.
C27_LookupInvertsBuild ==
    fn = "exp_approximation" =>
        \A idx \in 0..(lut_size - 1) :
            fa = BuildDistance(idx) => (findex = idx /\ fr = lut[idx])

-----------------------------------------------------------------------------
(* Properties of HardwareCounter, under SpecCounter *)

\* C29: after any sequence of reset, mac, add, mult, comp, lut with n >= 0,
\* total_ops = adds + mults + comps + luts, macs <= adds, macs <= mults, no
\* counter is negative, and reset leaves every counter 0.
C29_CounterInvariant ==
    /\ counter.total_ops = counter.adds + counter.mults + counter.comps + counter.luts
    /\ counter.macs <= counter.adds
    /\ counter.macs <= counter.mults
    /\ \A f \in DOMAIN counter : counter[f] >= 0
    /\ fn = "reset" => counter = ZeroCounter

C29_Witness ==
    /\ fn = "mac"
    /\ fa = 2
    /\ counter.macs >= 2
    /\ counter.comps >= 1
    /\ counter.luts >= 1

=============================================================================
